---- MODULE Spec2Model ----
(***************************************************************************)
(* Model of research-analyzer/src/routes/analysis.py: the POST /analyze    *)
(* handler, text extraction, the Gemini call and the resolution of the     *)
(* provider's response text into a JSON value.                             *)
(*                                                                         *)
(* Text is modelled as a sequence of lexical tokens: a token is a piece of *)
(* whitespace, one of the JSON punctuation characters, a JSON string       *)
(* literal, a JSON number or a bare word of prose.  File names are         *)
(* sequences of single characters.                                         *)
(***************************************************************************)
EXTENDS Integers, Sequences, FiniteSets, TLC

(***************************************************************************)
(* Lexical classes of the tokens of a response or document text.           *)
(***************************************************************************)
Whitespace == {" ", "\n"}

Numbers == {"1"}

Strings ==
    {"terms", "expressions", "overall_costs", "expression", "type",
     "communicational_cost", "computational_cost",
     "total_communicational_cost", "total_computational_cost",
     "Hash Function", "Symmetric Encryption", "Nonce Check",
     "hashing", "0.0023ms", "0.0046ms", "5ms", "99ms", "1ms",
     "8 bits", "16 bits", "0 bits", "0ms", "note"}

(***************************************************************************)
(* JSON values as json.loads builds them.  Every value has the same four   *)
(* fields; an object's members are kept in insertion order as a sequence   *)
(* of key/value pairs with one pair per key.                               *)
(***************************************************************************)
JNone == [kind |-> "none", s |-> "", items |-> <<>>, members |-> <<>>]

JStr(t) == [kind |-> "str", s |-> t, items |-> <<>>, members |-> <<>>]

JNum(t) == [kind |-> "num", s |-> t, items |-> <<>>, members |-> <<>>]

JArr(xs) == [kind |-> "arr", s |-> "", items |-> xs, members |-> <<>>]

JObj(ms) == [kind |-> "obj", s |-> "", items |-> <<>>, members |-> ms]

HasKey(v, k) == v.kind = "obj" /\ \E i \in 1..Len(v.members) : v.members[i].k = k

Get(v, k) ==
    LET i == CHOOSE j \in 1..Len(v.members) : v.members[j].k = k
    IN  v.members[i].v

\* dict[k] = v: a repeated key keeps its place and takes the later value.
Put(ms, k, v) ==
    IF \E i \in 1..Len(ms) : ms[i].k = k
    THEN [i \in 1..Len(ms) |-> IF ms[i].k = k THEN [k |-> k, v |-> v] ELSE ms[i]]
    ELSE Append(ms, [k |-> k, v |-> v])

(***************************************************************************)
(* json.loads: skip whitespace, scan one value, skip whitespace, and fail  *)
(* (JSONDecodeError) unless the text ends there.                           *)
(***************************************************************************)
ParseFail == [ok |-> FALSE, val |-> JNone, next |-> 0]

ParseOk(v, n) == [ok |-> TRUE, val |-> v, next |-> n]

RECURSIVE SkipWs(_, _)
SkipWs(s, i) ==
    IF i <= Len(s) /\ s[i] \in Whitespace THEN SkipWs(s, i + 1) ELSE i

RECURSIVE ParseValue(_, _)
RECURSIVE ParseMembers(_, _, _)
RECURSIVE ParseItems(_, _, _)

\* The scanner at token i of s (whitespace already skipped).
ParseValue(s, i) ==
    IF i > Len(s) THEN ParseFail
    ELSE IF s[i] \in Strings THEN ParseOk(JStr(s[i]), i + 1)
    ELSE IF s[i] \in Numbers THEN ParseOk(JNum(s[i]), i + 1)
    ELSE IF s[i] = "{" THEN
        LET j == SkipWs(s, i + 1)
        IN  IF j <= Len(s) /\ s[j] = "}" THEN ParseOk(JObj(<<>>), j + 1)
            ELSE ParseMembers(s, j, <<>>)
    ELSE IF s[i] = "[" THEN
        LET j == SkipWs(s, i + 1)
        IN  IF j <= Len(s) /\ s[j] = "]" THEN ParseOk(JArr(<<>>), j + 1)
            ELSE ParseItems(s, j, <<>>)
    ELSE ParseFail

\* Members of an object from the key at token j on; acc holds those read.
ParseMembers(s, j, acc) ==
    IF j > Len(s) \/ s[j] \notin Strings THEN ParseFail
    ELSE LET c == SkipWs(s, j + 1)
         IN  IF c > Len(s) \/ s[c] # ":" THEN ParseFail
             ELSE LET r == ParseValue(s, SkipWs(s, c + 1))
                  IN  IF ~r.ok THEN ParseFail
                      ELSE LET e    == SkipWs(s, r.next)
                               acc2 == Put(acc, s[j], r.val)
                           IN  IF e > Len(s) THEN ParseFail
                               ELSE IF s[e] = "}" THEN ParseOk(JObj(acc2), e + 1)
                               ELSE IF s[e] = ","
                                    THEN ParseMembers(s, SkipWs(s, e + 1), acc2)
                               ELSE ParseFail

\* Items of an array from the value at token j on; acc holds those read.
ParseItems(s, j, acc) ==
    LET r == ParseValue(s, j)
    IN  IF ~r.ok THEN ParseFail
        ELSE LET e    == SkipWs(s, r.next)
                 acc2 == Append(acc, r.val)
             IN  IF e > Len(s) THEN ParseFail
                 ELSE IF s[e] = "]" THEN ParseOk(JArr(acc2), e + 1)
                 ELSE IF s[e] = "," THEN ParseItems(s, SkipWs(s, e + 1), acc2)
                 ELSE ParseFail

json_loads(s) ==
    LET r == ParseValue(s, SkipWs(s, 1))
    IN  IF ~r.ok THEN ParseFail
        ELSE IF SkipWs(s, r.next) <= Len(s) THEN ParseFail
        ELSE r

(***************************************************************************)
(* str.strip(): drop leading and trailing whitespace.                      *)
(***************************************************************************)
RECURSIVE LastNonWs(_, _)
LastNonWs(s, i) ==
    IF i >= 1 /\ s[i] \in Whitespace THEN LastNonWs(s, i - 1) ELSE i

strip(s) == SubSeq(s, SkipWs(s, 1), LastNonWs(s, Len(s)))

(***************************************************************************)
(* re.search(r'\{.*\}', text, re.DOTALL): the leftmost "{" that has a "}"  *)
(* after it, up to the last "}" of the text; "." also matches a newline.   *)
(***************************************************************************)
Positions(s, c) == {i \in 1..Len(s) : s[i] = c}

Min(S) == CHOOSE x \in S : \A y \in S : x <= y

Max(S) == CHOOSE x \in S : \A y \in S : x >= y

NoMatch == [found |-> FALSE, group |-> <<>>]

\* The same search with a lazy quantifier, r'\{.*?\}': up to the first "}".
re_search_lazy(s) ==
    LET opens  == Positions(s, "{")
        closes == Positions(s, "}")
    IN  IF opens = {} \/ closes = {} THEN NoMatch
        ELSE IF Max(closes) < Min(opens) THEN NoMatch
        ELSE [found |-> TRUE,
              group |-> SubSeq(s, Min(opens), Min({c \in closes : c > Min(opens)}))]

re_search(s) ==
    LET opens  == Positions(s, "{")
        closes == Positions(s, "}")
    IN  IF opens = {} \/ closes = {} THEN NoMatch
        ELSE IF Max(closes) < Min(opens) THEN NoMatch
        ELSE [found |-> TRUE, group |-> SubSeq(s, Min(opens), Max(closes))]

(***************************************************************************)
(* The resolution of the provider's text in analyze_document_with_gemini:  *)
(* json.loads of the stripped text; on JSONDecodeError the regex span is   *)
(* parsed instead, and an error of that second json.loads, or the          *)
(* ValueError for no span, leaves the function.                            *)
(***************************************************************************)
Returned(v) == [raised |-> FALSE, exc |-> "", value |-> v]

Raised(e) == [raised |-> TRUE, exc |-> e, value |-> JNone]

resolve_response(text) ==
    LET response_text == strip(text)
        direct        == json_loads(response_text)
    IN  IF direct.ok THEN Returned(direct.val)
        ELSE LET json_match == re_search(response_text)
             IN  IF json_match.found
                 THEN LET second == json_loads(json_match.group)
                      IN  IF second.ok THEN Returned(second.val)
                          ELSE Raised("JSONDecodeError")
                 ELSE Raised("Could not extract valid JSON from Gemini response")

(***************************************************************************)
(* File names, str.lower() and str.endswith().                             *)
(***************************************************************************)
LowerChar(c) ==
    CASE c = "D" -> "d"
      [] c = "O" -> "o"
      [] c = "C" -> "c"
      [] c = "X" -> "x"
      [] c = "P" -> "p"
      [] OTHER   -> c

lower(s) == [i \in 1..Len(s) |-> LowerChar(s[i])]

endswith(s, suffix) ==
    /\ Len(s) >= Len(suffix)
    /\ SubSeq(s, Len(s) - Len(suffix) + 1, Len(s)) = suffix

ExtDoc == <<".", "d", "o", "c">>

ExtDocx == <<".", "d", "o", "c", "x">>

ExtPdf == <<".", "p", "d", "f">>

allowed_extensions == {ExtDoc, ExtDocx, ExtPdf}

endswith_any(s, suffixes) == \E suffix \in suffixes : endswith(s, suffix)

(***************************************************************************)
(* extract_text_from_file.  A file is its name and its content; the        *)
(* content has the format its bytes really are in and the paragraphs       *)
(* (.docx) or pages (.pdf) a reader of that format finds in it.            *)
(***************************************************************************)
RECURSIVE join(_)
join(parts) ==
    IF Len(parts) = 0 THEN <<>>
    ELSE IF Len(parts) = 1 THEN parts[1]
    ELSE parts[1] \o <<"\n">> \o join(Tail(parts))

RECURSIVE NonEmptyPages(_)
NonEmptyPages(pages) ==
    IF Len(pages) = 0 THEN <<>>
    ELSE IF pages[1] = <<>> THEN NonEmptyPages(Tail(pages))
    ELSE <<pages[1]>> \o NonEmptyPages(Tail(pages))

Extracted(text) == [raised |-> FALSE, exc |-> <<>>, text |-> text]

ExtractionError(msg) == [raised |-> TRUE, exc |-> msg, text |-> <<>>]

\* The same extraction with the .doc test on the name as written, not lowered.
extract_text_from_file_doc_as_written(filename, content) ==
    IF endswith(lower(filename), ExtDocx) THEN
        IF content.format = "docx" THEN Extracted(join(content.parts))
        ELSE ExtractionError(<<"Error extracting text from .docx file: ", "not a docx">>)
    ELSE IF endswith(lower(filename), ExtPdf) THEN
        IF content.format = "pdf" THEN Extracted(join(NonEmptyPages(content.parts)))
        ELSE ExtractionError(<<"Error extracting text from .pdf file: ", "not a pdf">>)
    ELSE IF endswith(filename, ExtDoc) THEN
        ExtractionError(<<"Text extraction from .doc files is not directly supported. Please convert to .docx or .pdf.">>)
    ELSE ExtractionError(<<"Unsupported file type for text extraction.">>)

extract_text_from_file(filename, content) ==
    IF endswith(lower(filename), ExtDocx) THEN
        IF content.format = "docx" THEN Extracted(join(content.parts))
        ELSE ExtractionError(<<"Error extracting text from .docx file: ", "not a docx">>)
    ELSE IF endswith(lower(filename), ExtPdf) THEN
        IF content.format = "pdf" THEN Extracted(join(NonEmptyPages(content.parts)))
        ELSE ExtractionError(<<"Error extracting text from .pdf file: ", "not a pdf">>)
    ELSE IF endswith(lower(filename), ExtDoc) THEN
        ExtractionError(<<"Text extraction from .doc files is not directly supported. Please convert to .docx or .pdf.">>)
    ELSE ExtractionError(<<"Unsupported file type for text extraction.">>)

(***************************************************************************)
(* The prompt: the fixed instructions around the document text.  The cost  *)
(* policy the instructions state is kept as data: the ten predefined       *)
(* computational costs and the two defaults.                               *)
(***************************************************************************)
PredefinedCosts ==
    [op \in {"Hash Function", "Elliptic Curve Scalar Multiplication",
             "Elliptic Curve Addition", "Symmetric Encryption",
             "Modular Exponentiation", "Modular Multiplication",
             "Biometric Key Processing", "Extracting a Random Number",
             "Vector Addition Modulo", "Matrix Multiplication Modulo"} |->
        CASE op = "Hash Function" -> "0.0023ms"
          [] op = "Elliptic Curve Scalar Multiplication" -> "2.226ms"
          [] op = "Elliptic Curve Addition" -> "0.0288ms"
          [] op = "Symmetric Encryption" -> "0.0046ms"
          [] op = "Modular Exponentiation" -> "3.85ms"
          [] op = "Modular Multiplication" -> "0.0147ms"
          [] op = "Biometric Key Processing" -> "63.075ms"
          [] op = "Extracting a Random Number" -> "2.011ms"
          [] op = "Vector Addition Modulo" -> "2ms"
          [] op = "Matrix Multiplication Modulo" -> "4ms"]

DefaultComputationalCost == "1ms"

DefaultCommunicationalCost == "8 bits"

PromptHead ==
    <<"Analyze the following research document", "1. terms", "2. expressions",
      "communicational cost: document, else default 8 bits",
      "computational cost: document, else predefined, else default 1ms",
      "3. overall costs", "Document text:", "\n">>

PromptTail == <<"\n", "Please respond with a valid JSON object", "JSON only">>

build_prompt(text) == PromptHead \o text \o PromptTail

(***************************************************************************)
(* The cost policy the prompt states, as a function of the document text   *)
(* and the expression's name.                                              *)
(***************************************************************************)
CueWords == {"costs", "takes", "requires"}

MsValues == {"0.0023ms", "0.0046ms", "5ms", "99ms", "1ms", "0ms"}

BitValues == {"8 bits", "16 bits", "0 bits"}

StatedAt(text, name, units) ==
    {i \in 1..Len(text) : /\ i + 2 <= Len(text)
                          /\ text[i] = name
                          /\ text[i + 1] \in CueWords
                          /\ text[i + 2] \in units}

PolicyComputationalCost(text, name) ==
    IF StatedAt(text, name, MsValues) # {}
    THEN text[Min(StatedAt(text, name, MsValues)) + 2]
    ELSE IF name \in DOMAIN PredefinedCosts THEN PredefinedCosts[name]
    ELSE DefaultComputationalCost

PolicyCommunicationalCost(text, name) ==
    IF StatedAt(text, name, BitValues) # {}
    THEN text[Min(StatedAt(text, name, BitValues)) + 2]
    ELSE DefaultCommunicationalCost

(***************************************************************************)
(* Bounds of the model.                                                    *)
(***************************************************************************)
\* Paragraphs or pages of an uploaded file.
MaxParts == 2

(***************************************************************************)
(* Inputs: uploaded files, form fields and what the provider answers.      *)
(***************************************************************************)
FileNames ==
    { <<>>,
      <<"a", ".", "d", "o", "c">>,
      <<"a", ".", "D", "o", "C">>,
      <<"a", ".", "d", "o", "c", "x">>,
      <<"a", ".", "P", "D", "F">>,
      <<"a", ".", "t", "x", "t">>,
      <<"d", "o", "c">>,
      <<"a", ".", "d", "o", "c", ".", "t", "x", "t">> }

Paragraphs ==
    { <<>>, <<" ">>, <<"Introduction">>,
      <<"Symmetric Encryption", "takes", "5ms">> }

RECURSIVE SeqsUpTo(_, _)
SeqsUpTo(S, n) ==
    IF n = 0 THEN {<<>>}
    ELSE LET shorter == SeqsUpTo(S, n - 1)
         IN  shorter \cup {Append(q, e) : q \in shorter, e \in S}

Contents ==
    [format : {"docx", "pdf"}, parts : SeqsUpTo(Paragraphs, MaxParts)]
        \cup {[format |-> "junk", parts |-> <<>>]}

NoContent == [format |-> "junk", parts |-> <<>>]

ApiKeys == {"valid-key", "invalid-key"}

Requests ==
    [hasDocument : {FALSE}, hasApiKey : BOOLEAN, filename : {<<>>},
     content : {NoContent}, api_key : {""}]
        \cup [hasDocument : {TRUE}, hasApiKey : {FALSE}, filename : FileNames,
              content : Contents, api_key : {""}]
        \cup [hasDocument : {TRUE}, hasApiKey : {TRUE}, filename : FileNames,
              content : Contents, api_key : ApiKeys]

\* What the provider means an expression to cost, and the object it writes.
NoIntent == [given |-> FALSE, expression |-> "", computational_cost |-> "",
             communicational_cost |-> ""]

Intent(n, c, m) == [given |-> TRUE, expression |-> n, computational_cost |-> c,
                    communicational_cost |-> m]

Intents ==
    { Intent("Hash Function", "0.0023ms", "8 bits"),
      Intent("Hash Function", "99ms", "8 bits"),
      Intent("Symmetric Encryption", "5ms", "8 bits"),
      Intent("Nonce Check", "1ms", "16 bits") }

OverallTokens ==
    <<"overall_costs", ":", "{", "total_communicational_cost", ":", "0 bits", ",",
      "total_computational_cost", ":", "0ms", "}">>

Render(intent) ==
    <<"{", "terms", ":", "[", "]", ",", "\n", "expressions", ":", "[", "{",
      "expression", ":", intent.expression, ",", "type", ":", "hashing", ",",
      "communicational_cost", ":", intent.communicational_cost, ",",
      "computational_cost", ":", intent.computational_cost, "}", "]", ",", "\n">>
        \o OverallTokens \o <<"}">>

CompleteObject ==
    <<"{", "terms", ":", "[", "]", ",", "\n", "expressions", ":", "[", "]", ",", " ">>
        \o OverallTokens \o <<"}">>

PlainPayloads ==
    { <<>>, <<"1">>, <<"Sorry">>, <<"{", "}">>,
      <<"{", "terms", ":", "[", "]", "}">>,
      <<"{", "terms", ":", "}">>,
      CompleteObject }

Payloads ==
    {[tokens |-> t, intent |-> NoIntent] : t \in PlainPayloads}
        \cup {[tokens |-> Render(i), intent |-> i] : i \in Intents}

Prefixes == { <<>>, <<"Here", "is", "the", "result:", "\n">>, <<"{", "note", "}", " ">>, <<"[">> }

Suffixes == { <<>>, <<"\n", "Thanks!">>, <<" ", "}">>, <<"]">> }

Replies ==
    {[prefix |-> a, payload |-> p.tokens, suffix |-> b, intent |-> p.intent] :
        a \in Prefixes, p \in Payloads, b \in Suffixes}

NoReply == [prefix |-> <<>>, payload |-> <<>>, suffix |-> <<>>, intent |-> NoIntent]

ReplyText(r) == r.prefix \o r.payload \o r.suffix

(***************************************************************************)
(* State.                                                                  *)
(***************************************************************************)
VARIABLES
    pc,             \* where the handler of the current request stands
    request,        \* the multipart form of the current request
    document_text,  \* analyze_document's document_text
    prompt,         \* the prompt handed to generate_content
    response,       \* response.text of the provider's answer
    status,         \* HTTP status of the answer, 0 while there is none
    body,           \* JSON body of the answer
    genaiKey,       \* the key the genai module is configured with (process-wide)
    configured,     \* configure_gemini ran in this request
    genCalls,       \* generate_content calls of this request
    stages,         \* the stages this request went through, in order
    env,            \* what the library import and the provider did in this request
    prev            \* the previous run, when this request repeats it

vars == <<pc, request, document_text, prompt, response, status, body, genaiKey,
          configured, genCalls, stages, env, prev>>

NoBody == [kind |-> "none", error |-> <<>>, value |-> JNone]

ErrorBody(msg) == [kind |-> "error", error |-> msg, value |-> JNone]

\* jsonify(result)
ResultBody(v) == [kind |-> "json", error |-> <<>>, value |-> v]

NoEnv == [lib |-> "unused", gen |-> "unused", cause |-> "", reply |-> NoReply]

NoPrev ==
    [valid |-> FALSE, request |-> [hasDocument |-> FALSE, hasApiKey |-> FALSE,
                                   filename |-> <<>>, content |-> NoContent,
                                   api_key |-> ""],
     env |-> NoEnv, prompt |-> <<>>, response |-> <<>>, status |-> 0, body |-> NoBody]

Init ==
    /\ pc = "fields"
    /\ request \in Requests
    /\ document_text = <<>>
    /\ prompt = <<>>
    /\ response = <<>>
    /\ status = 0
    /\ body = NoBody
    /\ genaiKey = "unconfigured"
    /\ configured = FALSE
    /\ genCalls = 0
    /\ stages = <<>>
    /\ env = NoEnv
    /\ prev = NoPrev

\* return jsonify(...), code: the answer of the request.
Respond(code, b) ==
    /\ pc' = "done"
    /\ status' = code
    /\ body' = b

\* The handler without its status code: return jsonify({'error': str(e)})
handle_exception_default_status(msg) == Respond(200, ErrorBody(msg))

\* except Exception as e: return jsonify({'error': str(e)}), 500
handle_exception(msg) == Respond(500, ErrorBody(msg))

\* raise Exception(f"Error analyzing document with Gemini: {str(e)}")
analysis_error(cause) == <<"Error analyzing document with Gemini: ", cause>>

(***************************************************************************)
(* analyze_document, step by step.                                         *)
(***************************************************************************)
\* The field checks with genai configured as soon as the api_key is read.
CheckFieldsConfiguringFirst ==
    /\ pc = "fields"
    /\ stages' = Append(stages, "fields")
    /\ IF ~request.hasDocument
       THEN Respond(400, ErrorBody(<<"No document file provided">>))
            /\ UNCHANGED <<genaiKey, configured>>
       ELSE IF ~request.hasApiKey
       THEN Respond(400, ErrorBody(<<"No API key provided">>))
            /\ UNCHANGED <<genaiKey, configured>>
       ELSE /\ genaiKey' = request.api_key
            /\ configured' = TRUE
            /\ IF request.filename = <<>>
               THEN Respond(400, ErrorBody(<<"No file selected">>))
               ELSE pc' = "gate" /\ UNCHANGED <<status, body>>
    /\ UNCHANGED <<request, document_text, prompt, response, genCalls, env, prev>>

\* 'document' in request.files, 'api_key' in request.form, file.filename == ''
CheckFields ==
    /\ pc = "fields"
    /\ stages' = Append(stages, "fields")
    /\ IF ~request.hasDocument
       THEN Respond(400, ErrorBody(<<"No document file provided">>))
       ELSE IF ~request.hasApiKey
       THEN Respond(400, ErrorBody(<<"No API key provided">>))
       ELSE IF request.filename = <<>>
       THEN Respond(400, ErrorBody(<<"No file selected">>))
       ELSE pc' = "gate" /\ UNCHANGED <<status, body>>
    /\ UNCHANGED <<request, document_text, prompt, response, genaiKey, configured,
                   genCalls, env, prev>>

\* file.filename.lower().endswith(allowed_extensions)
CheckExtension ==
    /\ pc = "gate"
    /\ stages' = Append(stages, "gate")
    /\ IF ~endswith_any(lower(request.filename), allowed_extensions)
       THEN Respond(400, ErrorBody(<<"Unsupported file type. Only .doc, .docx, .pdf files are allowed.">>))
       ELSE pc' = "extract" /\ UNCHANGED <<status, body>>
    /\ UNCHANGED <<request, document_text, prompt, response, genaiKey, configured,
                   genCalls, env, prev>>

\* document_text = extract_text_from_file(file)
Extract ==
    /\ pc = "extract"
    /\ stages' = Append(stages, "extract")
    /\ LET r == extract_text_from_file(request.filename, request.content)
       IN  IF r.raised
           THEN handle_exception(r.exc) /\ UNCHANGED document_text
           ELSE /\ document_text' = r.text
                /\ pc' = "empty"
                /\ UNCHANGED <<status, body>>
    /\ UNCHANGED <<request, prompt, response, genaiKey, configured, genCalls, env, prev>>

\* The empty-text check without strip(): if not document_text
CheckEmptyNoStrip ==
    /\ pc = "empty"
    /\ stages' = Append(stages, "empty")
    /\ IF document_text = <<>>
       THEN Respond(400, ErrorBody(<<"Document is empty or could not be read">>))
       ELSE pc' = "configure" /\ UNCHANGED <<status, body>>
    /\ UNCHANGED <<request, document_text, prompt, response, genaiKey, configured,
                   genCalls, env, prev>>

\* if not document_text.strip()
CheckEmpty ==
    /\ pc = "empty"
    /\ stages' = Append(stages, "empty")
    /\ IF strip(document_text) = <<>>
       THEN Respond(400, ErrorBody(<<"Document is empty or could not be read">>))
       ELSE pc' = "configure" /\ UNCHANGED <<status, body>>
    /\ UNCHANGED <<request, document_text, prompt, response, genaiKey, configured,
                   genCalls, env, prev>>

(***************************************************************************)
(* analyze_document_with_gemini, step by step.  Every exception raised in  *)
(* it is wrapped and reaches analyze_document's handler.                   *)
(***************************************************************************)
\* configure_gemini(api_key): the import may fail; genai.configure sets the key.
Configure ==
    /\ pc = "configure"
    /\ stages' = Append(stages, "provider")
    /\ \E lib \in {"ok", "missing"} :
          /\ env' = [env EXCEPT !.lib = lib]
          /\ IF lib = "missing"
             THEN /\ handle_exception(analysis_error(
                        "Google Generative AI library not available. Please install google-generativeai package."))
                  /\ UNCHANGED <<genaiKey, configured>>
             ELSE /\ genaiKey' = request.api_key
                  /\ configured' = TRUE
                  /\ pc' = "generate"
                  /\ UNCHANGED <<status, body>>
    /\ UNCHANGED <<request, document_text, prompt, response, genCalls, prev>>

\* A deterministic provider repeats the text it gave to the run being repeated.
RepliesNow == IF prev.valid /\ prev.env.gen = "ok" THEN {prev.env.reply} ELSE Replies

FailuresNow ==
    IF genaiKey = "valid-key" THEN {"provider unreachable", "generation failed"}
    ELSE {"API key not valid", "provider unreachable"}

\* The generation step calling generate_content again after a failure.
GenerateWithRetry ==
    /\ pc = "generate"
    /\ prompt' = build_prompt(document_text)
    /\ genCalls' = genCalls + 1
    /\ \/ /\ genaiKey = "valid-key"
          /\ \E reply \in RepliesNow :
                /\ env' = [env EXCEPT !.gen = "ok", !.reply = reply]
                /\ response' = ReplyText(reply)
          /\ pc' = "resolve"
          /\ UNCHANGED <<status, body>>
       \/ /\ \E cause \in FailuresNow :
                env' = [env EXCEPT !.gen = "fail", !.cause = cause]
          /\ IF genCalls = 0
             THEN UNCHANGED <<pc, status, body>>
             ELSE handle_exception(analysis_error(env'.cause))
          /\ UNCHANGED response
    /\ UNCHANGED <<request, document_text, genaiKey, configured, stages, prev>>

\* The generation step with the prompts of the run before kept as history.
GenerateWithHistory ==
    /\ pc = "generate"
    /\ prompt' = prev.prompt \o build_prompt(document_text)
    /\ genCalls' = genCalls + 1
    /\ \/ /\ genaiKey = "valid-key"
          /\ \E reply \in RepliesNow :
                /\ env' = [env EXCEPT !.gen = "ok", !.reply = reply]
                /\ response' = ReplyText(reply)
          /\ pc' = "resolve"
          /\ UNCHANGED <<status, body>>
       \/ /\ \E cause \in FailuresNow :
                /\ env' = [env EXCEPT !.gen = "fail", !.cause = cause]
                /\ handle_exception(analysis_error(cause))
          /\ UNCHANGED response
    /\ UNCHANGED <<request, document_text, genaiKey, configured, stages, prev>>

\* prompt = f"..."; response = model.generate_content(prompt)
Generate ==
    /\ pc = "generate"
    /\ prompt' = build_prompt(document_text)
    /\ genCalls' = genCalls + 1
    /\ \/ /\ genaiKey = "valid-key"
          /\ \E reply \in RepliesNow :
                /\ env' = [env EXCEPT !.gen = "ok", !.reply = reply]
                /\ response' = ReplyText(reply)
          /\ pc' = "resolve"
          /\ UNCHANGED <<status, body>>
       \/ /\ \E cause \in FailuresNow :
                /\ env' = [env EXCEPT !.gen = "fail", !.cause = cause]
                /\ handle_exception(analysis_error(cause))
          /\ UNCHANGED response
    /\ UNCHANGED <<request, document_text, genaiKey, configured, stages, prev>>

\* The resolution step rewriting each Expression's computational cost by the policy.
RepairExpression(e) ==
    IF HasKey(e, "expression") /\ HasKey(e, "computational_cost")
    THEN JObj(Put(e.members, "computational_cost",
                  JStr(PolicyComputationalCost(document_text, Get(e, "expression").s))))
    ELSE e

RepairResult(v) ==
    IF HasKey(v, "expressions") /\ Get(v, "expressions").kind = "arr"
    THEN JObj(Put(v.members, "expressions",
                  JArr([i \in 1..Len(Get(v, "expressions").items) |->
                           RepairExpression(Get(v, "expressions").items[i])])))
    ELSE v

ResolveRepairingCosts ==
    /\ pc = "resolve"
    /\ stages' = Append(stages, "resolve")
    /\ LET r == resolve_response(response)
       IN  IF r.raised
           THEN handle_exception(analysis_error(r.exc))
           ELSE Respond(200, ResultBody(RepairResult(r.value)))
    /\ UNCHANGED <<request, document_text, prompt, response, genaiKey, configured,
                   genCalls, env, prev>>

\* response.text.strip(), json.loads, the regex fallback; return jsonify(result)
Resolve ==
    /\ pc = "resolve"
    /\ stages' = Append(stages, "resolve")
    /\ LET r == resolve_response(response)
       IN  IF r.raised
           THEN handle_exception(analysis_error(r.exc))
           ELSE Respond(200, ResultBody(r.value))
    /\ UNCHANGED <<request, document_text, prompt, response, genaiKey, configured,
                   genCalls, env, prev>>

(***************************************************************************)
(* The next request.  Only the genai module's configuration outlives a     *)
(* request; everything else is local to one call of analyze_document.      *)
(***************************************************************************)
StartRequest(r, p) ==
    /\ pc' = "fields"
    /\ request' = r
    /\ prev' = p
    /\ document_text' = <<>>
    /\ prompt' = <<>>
    /\ response' = <<>>
    /\ status' = 0
    /\ body' = NoBody
    /\ configured' = FALSE
    /\ genCalls' = 0
    /\ stages' = <<>>
    /\ env' = NoEnv
    /\ UNCHANGED genaiKey

\* The answer is sent and the locals of the call are gone.
Return ==
    /\ pc = "done"
    /\ pc' = "idle"
    /\ request' = NoPrev.request
    /\ prev' = NoPrev
    /\ document_text' = <<>>
    /\ prompt' = <<>>
    /\ response' = <<>>
    /\ status' = 0
    /\ body' = NoBody
    /\ configured' = FALSE
    /\ genCalls' = 0
    /\ stages' = <<>>
    /\ env' = NoEnv
    /\ UNCHANGED genaiKey

NewRequest ==
    /\ pc = "idle"
    /\ \E r \in Requests : StartRequest(r, NoPrev)

\* The same form is posted again; the finished run is kept for comparison.
RepeatRequest ==
    /\ pc = "done"
    /\ StartRequest(request,
                    [valid |-> TRUE, request |-> request, env |-> env,
                     prompt |-> prompt, response |-> response,
                     status |-> status, body |-> body])

Next ==
    \/ CheckFields
    \/ CheckExtension
    \/ Extract
    \/ CheckEmpty
    \/ Configure
    \/ Generate
    \/ Resolve
    \/ Return
    \/ NewRequest
    \/ RepeatRequest

Spec == Init /\ [][Next]_vars
(***************************************************************************)
(* Vocabulary of the properties.                                           *)
(***************************************************************************)
Done == pc = "done"

GotResponse == env.gen = "ok"

RequiredKeys == {"terms", "expressions", "overall_costs"}

IsAnalysisResult(v) == v.kind = "obj" /\ \A k \in RequiredKeys : HasKey(v, k)

BraceFree(s) == Positions(s, "{") = {} /\ Positions(s, "}") = {}

AllWhitespace(s) == \A i \in 1..Len(s) : s[i] \in Whitespace

\* The payload of the reply is one valid JSON object.
EmbedsObject(r) == json_loads(r.payload).ok /\ json_loads(r.payload).val.kind = "obj"

EmbeddedObject(r) == json_loads(r.payload).val

FieldsPresent ==
    request.hasDocument /\ request.hasApiKey /\ request.filename # <<>>

GateAccepts == endswith_any(lower(request.filename), allowed_extensions)

ExtractionNow == extract_text_from_file(request.filename, request.content)

Passes400Checks ==
    /\ FieldsPresent
    /\ GateAccepts
    /\ ExtractionNow.raised \/ strip(ExtractionNow.text) # <<>>

StageOrder == <<"fields", "gate", "extract", "empty", "provider", "resolve">>

PolicyInPrompt(p) ==
    /\ \E i \in 1..Len(p) : p[i] = "communicational cost: document, else default 8 bits"
    /\ \E i \in 1..Len(p) :
          p[i] = "computational cost: document, else predefined, else default 1ms"

\* The Expression entries of a returned value.
ExpressionsOf(v) ==
    IF HasKey(v, "expressions") /\ Get(v, "expressions").kind = "arr"
    THEN Get(v, "expressions").items
    ELSE <<>>

FollowsPolicy(e, text) ==
    /\ HasKey(e, "expression")
    /\ HasKey(e, "computational_cost")
    /\ HasKey(e, "communicational_cost")
    /\ Get(e, "computational_cost") =
          JStr(PolicyComputationalCost(text, Get(e, "expression").s))
    /\ Get(e, "communicational_cost") =
          JStr(PolicyCommunicationalCost(text, Get(e, "expression").s))

CarriesIntent(e, intent) ==
    /\ HasKey(e, "expression")
    /\ HasKey(e, "computational_cost")
    /\ HasKey(e, "communicational_cost")
    /\ Get(e, "expression") = JStr(intent.expression)
    /\ Get(e, "computational_cost") = JStr(intent.computational_cost)
    /\ Get(e, "communicational_cost") = JStr(intent.communicational_cost)

(***************************************************************************)
(* C1.  A value recovered from the response that lacks one of the keys     *)
(* terms, expressions, overall_costs makes the analysis fail; every 200    *)
(* answer is a JSON object with all three keys.                            *)
(***************************************************************************)
C1_NoPartialResult ==
    Done /\ GotResponse =>
        /\ status = 200 => body.kind = "json" /\ IsAnalysisResult(body.value)
        /\ LET r == resolve_response(response)
           IN  ~r.raised /\ ~IsAnalysisResult(r.value) => status = 500

(***************************************************************************)
(* C2.  A response text with neither "{" nor "}" in it makes the           *)
(* resolution fail: the request is answered with the error, never with a   *)
(* result.                                                                 *)
(***************************************************************************)
C2_NoBracesFails ==
    Done /\ GotResponse /\ BraceFree(response) =>
        status = 500 /\ body.kind = "error"

C4_DocAlwaysFailsExtraction ==
    Done /\ FieldsPresent /\ endswith(lower(request.filename), ExtDoc) =>
        /\ stages = <<"fields", "gate", "extract">>
        /\ status = 500
        /\ body = ErrorBody(<<"Text extraction from .doc files is not directly supported. Please convert to .docx or .pdf.">>)
        /\ genCalls = 0
        /\ ~configured

C4_Witness ==
    /\ Done
    /\ request.filename = <<"a", ".", "D", "o", "C">>
    /\ request.content.format = "docx"
    /\ status = 500
    /\ stages = <<"fields", "gate", "extract">>

C6_FailuresAre500 ==
    Done /\ Passes400Checks =>
        IF ExtractionNow.raised
        THEN status = 500 /\ body = ErrorBody(ExtractionNow.exc)
        ELSE IF env.lib = "missing" \/ env.gen = "fail"
        THEN status = 500 /\ body.kind = "error"
        ELSE /\ env.lib = "ok"
             /\ env.gen = "ok"
             /\ LET r == resolve_response(response)
                IN  IF r.raised
                    THEN status = 500 /\ body = ErrorBody(analysis_error(r.exc))
                    ELSE status = 200 /\ body = ResultBody(r.value)

C6_Witness ==
    /\ Done
    /\ Passes400Checks
    /\ GotResponse
    /\ resolve_response(response).raised
    /\ status = 500

(***************************************************************************)
(* C7.  generate_content is called at most once in a request, and a        *)
(* failure of extraction, of the provider or of the resolution ends the    *)
(* request at once with its message in the answer.                         *)
(***************************************************************************)
C7_AtMostOneGeneration ==
    /\ genCalls <= 1
    /\ env.gen = "fail" =>
          /\ Done
          /\ status = 500
          /\ body = ErrorBody(analysis_error(env.cause))
    /\ env.lib = "missing" => Done /\ status = 500 /\ genCalls = 0
    /\ Done /\ GotResponse /\ resolve_response(response).raised =>
          status = 500 /\ genCalls = 1
    /\ Len(stages) >= 3 /\ ExtractionNow.raised =>
          Done /\ status = 500 /\ body = ErrorBody(ExtractionNow.exc)

C7_Witness ==
    /\ Done
    /\ env.gen = "fail"
    /\ env.cause = "provider unreachable"
    /\ genCalls = 1
    /\ status = 500

(***************************************************************************)
(* C8 as claimed.  Every Expression of a returned result has its two cost  *)
(* fields resolved by the priority order: the document's value, else the   *)
(* predefined table (computational cost only), else the default.           *)
(***************************************************************************)
C8_CostsFollowPolicy ==
    Done /\ status = 200 =>
        \A i \in 1..Len(ExpressionsOf(body.value)) :
            FollowsPolicy(ExpressionsOf(body.value)[i], document_text)

(***************************************************************************)
(* C8 as amended.  The prompt sent to the provider states the priority     *)
(* order, and the cost fields of an Expression of a returned result are    *)
(* the values the provider wrote, whether or not they follow that order.   *)
(***************************************************************************)
C8_CostsAreTheProvidersValues ==
    ( /\ Done
      /\ status = 200
      /\ env.reply.intent.given
      /\ HasKey(body.value, "expressions") )
    => /\ PolicyInPrompt(prompt)
       /\ Len(ExpressionsOf(body.value)) = 1
       /\ CarriesIntent(ExpressionsOf(body.value)[1], env.reply.intent)

C8_Witness ==
    /\ Done
    /\ status = 200
    /\ env.reply.intent = Intent("Hash Function", "99ms", "8 bits")
    /\ Len(ExpressionsOf(body.value)) = 1
    /\ ~FollowsPolicy(ExpressionsOf(body.value)[1], document_text)

(***************************************************************************)
(* C9.  A request posted twice with the same file and fields, the provider *)
(* giving the same response text both times, sends the same prompt and is  *)
(* answered the same both times.                                           *)
(***************************************************************************)
C9_RepeatedRunSameOutcome ==
    ( /\ Done
      /\ prev.valid
      /\ request = prev.request
      /\ GotResponse
      /\ prev.env.gen = "ok"
      /\ ReplyText(env.reply) = ReplyText(prev.env.reply) )
    => /\ prompt = prev.prompt
       /\ response = prev.response
       /\ status = prev.status
       /\ body = prev.body

C9_Witness ==
    /\ Done
    /\ prev.valid
    /\ GotResponse
    /\ prev.env.gen = "ok"
    /\ prev.status = 200
    /\ status = 200
    /\ genaiKey = "valid-key"

(***************************************************************************)
(* C10.  The stages of a request run in the order field checks, extension  *)
(* gate, extraction, empty-text check, provider, resolution; the provider  *)
(* and the api key are used only after all earlier stages succeeded, so    *)
(* never in a request answered 400 or whose extraction failed.             *)
(***************************************************************************)
C10_StagesInOrder ==
    /\ stages = SubSeq(StageOrder, 1, Len(stages))
    /\ (configured \/ genCalls > 0 \/ env # NoEnv) =>
          /\ Len(stages) >= 5
          /\ Passes400Checks
          /\ ~ExtractionNow.raised
    /\ Done /\ (status = 400 \/ (FieldsPresent /\ GateAccepts /\ ExtractionNow.raised)) =>
          /\ ~configured
          /\ genCalls = 0
          /\ env = NoEnv

C10_Witness ==
    /\ Done
    /\ stages = StageOrder
    /\ genCalls = 1
    /\ configured
    /\ status = 200
    /\ ~prev.valid
====
